---- MODULE Spec2Model ----
(***************************************************************************)
(* Model of outerspace (src/lib.rs): wrap_non_whitespace,                  *)
(* prefix_non_whitespace and suffix_non_whitespace over UTF-8 strings.     *)
(* A string is the sequence of its UTF-8 bytes (0..255), as a Rust &str    *)
(* is; offsets are 0-based byte offsets, as str::find, str::rfind and      *)
(* str::split_at use them.                                                 *)
(***************************************************************************)
EXTENDS Integers, Sequences, FiniteSets, TLC

VARIABLES s, prefix, suffix, pc, calls, arg,
          first_non_whitespace, last_non_whitespace, result

vars == <<s, prefix, suffix, pc, calls, arg,
          first_non_whitespace, last_non_whitespace, result>>

\* ------------------------------------------------------------------------
\* Bounds of the input space
MaxLen == 3      \* characters in the input string s
MaxAffix == 2    \* characters in prefix and in suffix

\* The characters inputs are built from, each as its UTF-8 encoding:
\* 'a' (U+0061), ' ' (U+0020), e-acute (U+00E9, two bytes, not whitespace),
\* no-break space (U+00A0, two bytes, whitespace).
Alphabet == { <<97>>, <<32>>, <<195, 169>>, <<194, 160>> }
\* prefix and suffix are built from the first three of them
AffixAlphabet == { <<97>>, <<32>>, <<195, 169>> }

RECURSIVE Strings(_, _)
Strings(alphabet, n) ==
    IF n = 0 THEN { <<>> }
    ELSE LET S == Strings(alphabet, n - 1)
         IN S \cup { c \o t : c \in alphabet, t \in S }

\* ------------------------------------------------------------------------
\* Option<usize> and the outcome of a call (a String, or a panic)
None == <<>>
Some(n) == <<n>>
Ok(str) == [panic |-> FALSE, val |-> str]
Panic == [panic |-> TRUE, val |-> <<>>]

\* ------------------------------------------------------------------------
\* UTF-8 text, as the standard library sees it
\* width of the character whose first byte is b
Width(b) == IF b < 128 THEN 1 ELSE IF b < 224 THEN 2 ELSE IF b < 240 THEN 3 ELSE 4

\* the scalar value of the character that starts at byte offset i of str
CodePoint(str, i) ==
    LET b == str[i + 1] IN
    IF Width(b) = 1 THEN b
    ELSE IF Width(b) = 2 THEN (b % 32) * 64 + (str[i + 2] % 64)
    ELSE IF Width(b) = 3
         THEN (b % 16) * 4096 + (str[i + 2] % 64) * 64 + (str[i + 3] % 64)
    ELSE (b % 8) * 262144 + (str[i + 2] % 64) * 4096
         + (str[i + 3] % 64) * 64 + (str[i + 4] % 64)

\* str.char_indices() from byte offset i on: <<offset, char>> pairs in order
RECURSIVE CharIndices(_, _)
CharIndices(str, i) ==
    IF i >= Len(str) THEN <<>>
    ELSE <<[idx |-> i, ch |-> CodePoint(str, i)]>>
         \o CharIndices(str, i + Width(str[i + 1]))

\* char::is_whitespace: the Unicode White_Space property
WhiteSpace ==
    (9..13) \cup {32, 133, 160, 5760} \cup (8192..8202)
    \cup {8232, 8233, 8239, 8287, 12288}

is_non_whitespace(char) == char \notin WhiteSpace

\* str::is_char_boundary
is_char_boundary(str, index) ==
    IF index = 0 THEN TRUE
    ELSE IF index >= Len(str) THEN index = Len(str)
    ELSE LET b == str[index + 1] IN b < 128 \/ b >= 192

\* s.find(is_non_whitespace): byte offset of the first matching character
find(str) ==
    LET ci == CharIndices(str, 0)
        m == { k \in 1..Len(ci) : is_non_whitespace(ci[k].ch) }
    IN IF m = {} THEN None
       ELSE Some(ci[CHOOSE k \in m : \A j \in m : k <= j].idx)

\* variant of rfind: the offset of the last byte of the last matching
\* character instead of its first byte
rfind_last_byte(str) ==
    LET ci == CharIndices(str, 0)
        m == { k \in 1..Len(ci) : is_non_whitespace(ci[k].ch) }
    IN IF m = {} THEN None
       ELSE LET c == ci[CHOOSE k \in m : \A j \in m : k >= j]
            IN Some(c.idx + Width(str[c.idx + 1]) - 1)

\* s.rfind(is_non_whitespace): byte offset of the FIRST byte of the last
\* matching character
rfind(str) ==
    LET ci == CharIndices(str, 0)
        m == { k \in 1..Len(ci) : is_non_whitespace(ci[k].ch) }
    IN IF m = {} THEN None
       ELSE Some(ci[CHOOSE k \in m : \A j \in m : k >= j].idx)

\* str::split_at(mid) panics unless mid is on a character boundary
SplitOk(str, mid) == mid >= 0 /\ is_char_boundary(str, mid)
Head_(str, mid) == SubSeq(str, 1, mid)
Tail_(str, mid) == SubSeq(str, mid + 1, Len(str))

\* ------------------------------------------------------------------------
\* fn format_wrap(s, prefix, suffix, first_non_whitespace, last_non_whitespace)
format_wrap(str, pre, suf, first, last) ==
    IF first # None /\ last # None THEN
        LET start == first[1]
            end == last[1]
        IN IF ~SplitOk(str, start) THEN Panic
           ELSE LET leading_ws == Head_(str, start)
                    rest == Tail_(str, start)
                IN IF end - start + 1 < 0 \/ ~SplitOk(rest, end - start + 1)
                   THEN Panic
                   ELSE LET core == Head_(rest, end - start + 1)
                            trailing_ws == Tail_(rest, end - start + 1)
                        IN Ok(leading_ws \o pre \o core \o suf \o trailing_ws)
    ELSE IF first # None THEN
        LET start == first[1]
        IN IF ~SplitOk(str, start) THEN Panic
           ELSE Ok(Head_(str, start) \o pre \o Tail_(str, start) \o suf)
    ELSE IF last # None THEN
        LET end == last[1]
        IN IF ~SplitOk(str, end + 1) THEN Panic
           ELSE Ok(pre \o Head_(str, end + 1) \o suf \o Tail_(str, end + 1))
    ELSE Ok(pre \o str \o suf)

\* variant of wrap_non_whitespace: the forward scan is dropped
wrap_non_whitespace_no_first(str, pre, suf) ==
    format_wrap(str, pre, suf, None, rfind(str))

\* variant of wrap_non_whitespace: prefix and suffix change places
wrap_non_whitespace_swapped(str, pre, suf) ==
    format_wrap(str, suf, pre, find(str), rfind(str))

\* pub fn wrap_non_whitespace(s, prefix, suffix)
wrap_non_whitespace(str, pre, suf) ==
    format_wrap(str, pre, suf, find(str), rfind(str))

\* variant of prefix_non_whitespace: scans backward instead of forward
prefix_non_whitespace_rfind(str, pre) ==
    format_wrap(str, pre, <<>>, rfind(str), None)

\* pub fn prefix_non_whitespace(s, prefix)
prefix_non_whitespace(str, pre) ==
    format_wrap(str, pre, <<>>, find(str), None)

\* pub fn suffix_non_whitespace(s, suffix)
suffix_non_whitespace(str, suf) ==
    format_wrap(str, <<>>, suf, None, rfind(str))

\* ------------------------------------------------------------------------
\* The caller: picks s, prefix and suffix, calls one of the three
\* operations on s and then, if that returned, one of them on the result.
Init ==
    /\ s \in Strings(Alphabet, MaxLen)
    /\ prefix \in Strings(AffixAlphabet, MaxAffix)
    /\ suffix \in Strings(AffixAlphabet, MaxAffix)
    /\ pc = "start"
    /\ calls = <<>>
    /\ arg = <<>>
    /\ first_non_whitespace = None
    /\ last_non_whitespace = None
    /\ result = Ok(s)

CanCall == pc \in {"start", "once"} /\ ~result.panic

Advance(op) ==
    /\ arg' = result.val
    /\ calls' = Append(calls, op)
    /\ pc' = IF pc = "start" THEN "once" ELSE "twice"
    /\ UNCHANGED <<s, prefix, suffix>>

Wrap ==
    /\ CanCall
    /\ Advance("wrap")
    /\ first_non_whitespace' = find(result.val)
    /\ last_non_whitespace' = rfind(result.val)
    /\ result' = wrap_non_whitespace(result.val, prefix, suffix)

Prefix ==
    /\ CanCall
    /\ Advance("prefix")
    /\ first_non_whitespace' = find(result.val)
    /\ last_non_whitespace' = None
    /\ result' = prefix_non_whitespace(result.val, prefix)

Suffix ==
    /\ CanCall
    /\ Advance("suffix")
    /\ first_non_whitespace' = None
    /\ last_non_whitespace' = rfind(result.val)
    /\ result' = suffix_non_whitespace(result.val, suffix)

Next == Wrap \/ Prefix \/ Suffix

Spec == Init /\ [][Next]_vars

\* ------------------------------------------------------------------------
\* Reference view: a string as the sequence of its characters (scalar
\* values), and the regions the documentation speaks of.
Chars(str) == LET ci == CharIndices(str, 0) IN [k \in 1..Len(ci) |-> ci[k].ch]

EncodeChar(c) ==
    IF c < 128 THEN <<c>>
    ELSE IF c < 2048 THEN <<192 + (c \div 64), 128 + (c % 64)>>
    ELSE <<224 + (c \div 4096), 128 + ((c \div 64) % 64), 128 + (c % 64)>>

RECURSIVE Encode(_)
Encode(cs) == IF cs = <<>> THEN <<>> ELSE EncodeChar(Head(cs)) \o Encode(Tail(cs))

IsWs(c) == c \in WhiteSpace
HasNonWs(cs) == \E k \in 1..Len(cs) : ~IsWs(cs[k])
\* number of characters of the maximal whitespace-only prefix / suffix
NLead(cs) ==
    CHOOSE n \in 0..Len(cs) :
        /\ \A k \in 1..n : IsWs(cs[k])
        /\ (n < Len(cs) => ~IsWs(cs[n + 1]))
NTrail(cs) ==
    CHOOSE n \in 0..Len(cs) :
        /\ \A k \in (Len(cs) - n + 1)..Len(cs) : IsWs(cs[k])
        /\ (n < Len(cs) => ~IsWs(cs[Len(cs) - n]))
LeadingWs(cs) == SubSeq(cs, 1, NLead(cs))
TrailingWs(cs) == SubSeq(cs, Len(cs) - NTrail(cs) + 1, Len(cs))
\* from the first to the last non-whitespace character, inclusive
Core(cs) == SubSeq(cs, NLead(cs) + 1, Len(cs) - NTrail(cs))
\* from the first non-whitespace character to the end
FromFirst(cs) == SubSeq(cs, NLead(cs) + 1, Len(cs))
\* from the start up to and including the last non-whitespace character
UpToLast(cs) == SubSeq(cs, 1, Len(cs) - NTrail(cs))
\* the last non-whitespace character takes more than one byte
LastNonWsIsMultiByte(cs) ==
    HasNonWs(cs) /\ Len(EncodeChar(cs[Len(cs) - NTrail(cs)])) > 1

RefWrap(cs, p, q) ==
    IF HasNonWs(cs) THEN LeadingWs(cs) \o p \o Core(cs) \o q \o TrailingWs(cs)
    ELSE p \o cs \o q
RefPrefix(cs, p) ==
    IF HasNonWs(cs) THEN LeadingWs(cs) \o p \o FromFirst(cs) ELSE p \o cs
RefSuffix(cs, q) ==
    IF HasNonWs(cs) THEN UpToLast(cs) \o q \o TrailingWs(cs) ELSE cs \o q

\* the latest call was to operation op
Called(op) == calls # <<>> /\ calls[Len(calls)] = op

\* ------------------------------------------------------------------------
\* C1: every call of the three operations returns a string (no panic), and
\* every offset at which it splits its argument (first, last + 1) is a
\* character boundary of the argument.
C1_Total ==
    calls # <<>> =>
        /\ ~result.panic
        /\ (first_non_whitespace # None
                => is_char_boundary(arg, first_non_whitespace[1]))
        /\ (last_non_whitespace # None
                => is_char_boundary(arg, last_non_whitespace[1] + 1))

\* C2: wrap_non_whitespace(s, prefix, suffix) returns the reference result
\* leading + prefix + core + suffix + trailing, or prefix + s + suffix when
\* s has no non-whitespace character.
C2_WrapIsReference ==
    Called("wrap") =>
        /\ ~result.panic
        /\ result.val = Encode(RefWrap(Chars(arg), Chars(prefix), Chars(suffix)))

\* C3: prefix_non_whitespace(s, prefix) returns leading + prefix + rest, or
\* prefix + s when s has no non-whitespace character.
C3_PrefixIsReference ==
    Called("prefix") =>
        /\ ~result.panic
        /\ result.val = Encode(RefPrefix(Chars(arg), Chars(prefix)))

C3_Witness ==
    /\ calls = <<"prefix">>
    /\ s = <<194, 160, 195, 169, 32>>
    /\ prefix = <<97, 32>>
    /\ result = Ok(<<194, 160, 97, 32, 195, 169, 32>>)

\* C4: suffix_non_whitespace(s, suffix) returns rest + suffix + trailing, or
\* s + suffix when s has no non-whitespace character.
C4_SuffixIsReference ==
    Called("suffix") =>
        /\ ~result.panic
        /\ result.val = Encode(RefSuffix(Chars(arg), Chars(suffix)))

\* C5 as stated: for all s, prefix and suffix, the maximal whitespace-only
\* prefix and suffix of wrap_non_whitespace(s, prefix, suffix) are those of s.
C5_WhitespaceKept ==
    Called("wrap") /\ ~result.panic =>
        /\ LeadingWs(Chars(result.val)) = LeadingWs(Chars(arg))
        /\ TrailingWs(Chars(result.val)) = TrailingWs(Chars(arg))

\* C5 amended: when s has a non-whitespace character, prefix does not begin
\* with a whitespace character and suffix does not end with one, the call
\* panics exactly when the last non-whitespace character of s is encoded in
\* more than one byte, and otherwise the maximal whitespace-only prefix and
\* suffix of the result are those of s.
C5_WhitespaceKeptAmended ==
    LET cs == Chars(arg)
        p == Chars(prefix)
        q == Chars(suffix)
    IN  /\ Called("wrap")
        /\ HasNonWs(cs)
        /\ (p # <<>> => ~IsWs(p[1]))
        /\ (q # <<>> => ~IsWs(q[Len(q)]))
        => /\ result.panic <=> LastNonWsIsMultiByte(cs)
           /\ ~result.panic =>
                /\ LeadingWs(Chars(result.val)) = LeadingWs(cs)
                /\ TrailingWs(Chars(result.val)) = TrailingWs(cs)

C5_Witness ==
    /\ calls = <<"wrap">>
    /\ s = <<194, 160, 97, 32>>
    /\ prefix = <<97, 32>>
    /\ suffix = <<32, 97>>
    /\ result = Ok(<<194, 160, 97, 32, 97, 32, 97, 32>>)

\* deleting the literal lit from cs at character offset off
NoMatch == <<-1>>
DeleteAt(cs, off, lit) ==
    IF cs # NoMatch /\ off >= 0 /\ off + Len(lit) <= Len(cs)
       /\ SubSeq(cs, off + 1, off + Len(lit)) = lit
    THEN SubSeq(cs, 1, off) \o SubSeq(cs, off + Len(lit) + 1, Len(cs))
    ELSE NoMatch

\* C6: deleting the literal prefix from r = wrap_non_whitespace(s, prefix,
\* suffix) at the offset of the first non-whitespace character of s (0 when
\* s has none), and the literal suffix just after the last non-whitespace
\* character of s shifted by len(prefix) (at the end of r when s has none),
\* gives back s.
C6_RoundTrip ==
    Called("wrap") =>
        /\ ~result.panic
        /\ LET cs == Chars(arg)
               p == Chars(prefix)
               q == Chars(suffix)
               r == Chars(result.val)
               ip == IF HasNonWs(cs) THEN NLead(cs) ELSE 0
               iq == IF HasNonWs(cs) THEN Len(cs) - NTrail(cs) + Len(p)
                     ELSE Len(r) - Len(q)
           IN DeleteAt(DeleteAt(r, iq, q), ip, p) = cs

\* C7: wrap_non_whitespace(s, "", "") = s.
C7_EmptyAffixesIdentity ==
    Called("wrap") /\ prefix = <<>> /\ suffix = <<>> =>
        /\ ~result.panic
        /\ result.val = arg

\* the markers nested twice around the core of cs
Nested(cs, p, q) ==
    IF HasNonWs(cs)
    THEN LeadingWs(cs) \o p \o p \o Core(cs) \o q \o q \o TrailingWs(cs)
    ELSE p \o p \o cs \o q \o q

\* C8 as stated: for every s and every non-empty prefix and suffix, wrapping
\* twice gives leading + p + p + core + q + q + trailing, which differs from
\* wrapping once.
C8_DoubleWrapNests ==
    /\ calls = <<"wrap", "wrap">>
    /\ ~result.panic
    /\ prefix # <<>>
    /\ suffix # <<>>
    => /\ result.val = Encode(Nested(Chars(s), Chars(prefix), Chars(suffix)))
       /\ result.val # arg

\* C8 amended: for every s, every non-empty prefix that does not begin with
\* a whitespace character and every non-empty suffix that does not end with
\* one: the first wrap panics exactly when the last non-whitespace character
\* of s is encoded in more than one byte, the second exactly when the last
\* character of suffix is, and otherwise the second result is
\* leading + p + p + core + q + q + trailing and differs from the first.
C8_DoubleWrapNestsAmended ==
    LET cs == Chars(s)
        p == Chars(prefix)
        q == Chars(suffix)
    IN  /\ p # <<>> /\ ~IsWs(p[1])
        /\ q # <<>> /\ ~IsWs(q[Len(q)])
        => /\ calls = <<"wrap">> =>
                (result.panic <=> LastNonWsIsMultiByte(cs))
           /\ calls = <<"wrap", "wrap">> =>
                /\ result.panic <=> Len(EncodeChar(q[Len(q)])) > 1
                /\ ~result.panic =>
                     /\ result.val = Encode(Nested(cs, p, q))
                     /\ result.val # arg

C8_Witness ==
    /\ calls = <<"wrap", "wrap">>
    /\ s = <<32, 97, 32>>
    /\ prefix = <<195, 169>>
    /\ suffix = <<32, 97>>
    /\ arg = <<32, 195, 169, 97, 32, 97, 32>>
    /\ result = Ok(<<32, 195, 169, 195, 169, 97, 32, 97, 32, 97, 32>>)

\* C9: the pair wrap_non_whitespace computes is both present or both absent,
\* absent exactly when its argument has no non-whitespace character; when
\* present, first <= last, both are offsets inside the argument, and they
\* are equal when the argument has exactly one non-whitespace character.
C9_BoundaryPair ==
    Called("wrap") =>
        LET cs == Chars(arg)
            f == first_non_whitespace
            l == last_non_whitespace
        IN  /\ f = None <=> l = None
            /\ f = None <=> ~HasNonWs(cs)
            /\ f # None /\ l # None =>
                 /\ 0 <= f[1] /\ f[1] <= l[1] /\ l[1] < Len(arg)
                 /\ Cardinality({k \in 1..Len(cs) : ~IsWs(cs[k])}) = 1
                        => f[1] = l[1]

C9_Witness ==
    /\ calls = <<"wrap">>
    /\ arg = <<194, 160, 195, 169, 32>>
    /\ first_non_whitespace = Some(2)
    /\ last_non_whitespace = Some(2)

\* C10: when s has a non-whitespace character, suffix_non_whitespace after
\* prefix_non_whitespace, and prefix_non_whitespace after
\* suffix_non_whitespace, both give wrap_non_whitespace(s, prefix, suffix).
C10_OneSidedCompose ==
    HasNonWs(Chars(s)) =>
        /\ calls \in {<<"prefix">>, <<"suffix">>} => ~result.panic
        /\ calls \in {<<"prefix", "suffix">>, <<"suffix", "prefix">>} =>
             LET w == wrap_non_whitespace(s, prefix, suffix)
             IN ~result.panic /\ ~w.panic /\ result.val = w.val

====
